---- MODULE Spec2Model ----
(***************************************************************************)
(* dlquery: querying nested maps and sequences with a lookup language.     *)
(*                                                                         *)
(* Python strings are TLA+ strings, read one character at a time with      *)
(* SubSeq.  Python values are tagged records (see "Raw data").  A call     *)
(* that raises is a result record whose exc field names the exception.     *)
(***************************************************************************)
EXTENDS Integers, Sequences, FiniteSets, TLC

(***************************************************************************)
(* Strings (str methods used by the sources)                               *)
(***************************************************************************)
\* s[i:i+1], 1-based: the empty string past either end
Char(s, i) == IF 1 <= i /\ i <= Len(s) THEN SubSeq(s, i, i) ELSE ""

StartsWith(s, i, w) ==
  /\ i >= 1
  /\ i + Len(w) - 1 <= Len(s)
  /\ SubSeq(s, i, i + Len(w) - 1) = w

\* str.count(ch) for a one-character ch
Count(s, ch) == Cardinality({i \in 1..Len(s) : Char(s, i) = ch})

\* c in w, for a one-character c
InStr(c, w) == \E i \in 1..Len(w) : Char(w, i) = c

UpperAlpha == "ABCDEFGHIJKLMNOPQRSTUVWXYZ"
LowerAlpha == "abcdefghijklmnopqrstuvwxyz"

LowerCh(c) ==
  IF InStr(c, UpperAlpha)
    THEN Char(LowerAlpha, CHOOSE i \in 1..Len(UpperAlpha) : Char(UpperAlpha, i) = c)
    ELSE c

RECURSIVE Lower(_)
Lower(s) == IF s = "" THEN "" ELSE LowerCh(Char(s, 1)) \o Lower(Tail(s))

\* str.replace(old, new): leftmost non-overlapping occurrences, old non-empty
RECURSIVE Replace(_, _, _)
Replace(s, old, new) ==
  IF Len(s) < Len(old) THEN s
  ELSE IF StartsWith(s, 1, old)
    THEN new \o Replace(SubSeq(s, Len(old) + 1, Len(s)), old, new)
    ELSE Char(s, 1) \o Replace(Tail(s), old, new)

Whitespace == " \t\n"

\* str.strip()
RECURSIVE LStrip(_)
LStrip(s) == IF s # "" /\ InStr(Char(s, 1), Whitespace) THEN LStrip(Tail(s)) ELSE s
RECURSIVE RStrip(_)
RStrip(s) ==
  IF s # "" /\ InStr(Char(s, Len(s)), Whitespace)
    THEN RStrip(SubSeq(s, 1, Len(s) - 1)) ELSE s
Strip(s) == RStrip(LStrip(s))

\* str.split(':'): the pieces between the separators, in order
RECURSIVE Split(_, _)
Split(s, sep) ==
  IF \E i \in 1..Len(s) : Char(s, i) = sep
    THEN LET i == CHOOSE k \in 1..Len(s) :
                    Char(s, k) = sep /\ \A m \in 1..(k - 1) : Char(s, m) # sep
         IN <<SubSeq(s, 1, i - 1)>> \o Split(SubSeq(s, i + 1, Len(s)), sep)
    ELSE <<s>>

\* str.split('=', maxsplit=1)
SplitFirst(s, sep) ==
  IF \E i \in 1..Len(s) : Char(s, i) = sep
    THEN LET i == CHOOSE k \in 1..Len(s) :
                    Char(s, k) = sep /\ \A m \in 1..(k - 1) : Char(s, m) # sep
         IN <<SubSeq(s, 1, i - 1), SubSeq(s, i + 1, Len(s))>>
    ELSE <<s>>

(***************************************************************************)
(* The re module, on the fragment the lookups of this model can compose:   *)
(* literals, \c, '.', '^', '$', classes [..] and [^..], groups (..),       *)
(* alternation '|' and the greedy '*', with an optional leading (?i).      *)
(* A match is computed as the set of positions where it can end.           *)
(***************************************************************************)
ReSpecial == "()[]{}?*+-|^$\\.&~# \t\n"

\* re.escape (python >= 3.7: only the special characters are escaped)
RECURSIVE ReEscape(_)
ReEscape(s) ==
  IF s = "" THEN ""
  ELSE (IF InStr(Char(s, 1), ReSpecial) THEN "\\" \o Char(s, 1) ELSE Char(s, 1))
       \o ReEscape(Tail(s))

\* index of the ']' closing the class opened at i, 0 when unterminated
RECURSIVE ClassScan(_, _)
ClassScan(p, k) ==
  IF k > Len(p) THEN 0
  ELSE IF Char(p, k) = "\\" THEN ClassScan(p, k + 2)
  ELSE IF Char(p, k) = "]" THEN k
  ELSE ClassScan(p, k + 1)

ClassFirst(p, i) == IF Char(p, i + 1) = "^" THEN i + 2 ELSE i + 1

ClassEnd(p, i) ==
  LET f == ClassFirst(p, i)
  IN  IF f <= Len(p) /\ Char(p, f) = "]" THEN ClassScan(p, f + 1) ELSE ClassScan(p, f)

\* index of the ')' closing the group opened before k at depth d, 0 when missing
RECURSIVE GroupScan(_, _, _)
GroupScan(p, k, d) ==
  IF k > Len(p) THEN 0
  ELSE IF Char(p, k) = "\\" THEN GroupScan(p, k + 2, d)
  ELSE IF Char(p, k) = "["
    THEN LET e == ClassEnd(p, k) IN IF e = 0 THEN 0 ELSE GroupScan(p, e + 1, d)
  ELSE IF Char(p, k) = "(" THEN GroupScan(p, k + 1, d + 1)
  ELSE IF Char(p, k) = ")"
    THEN IF d = 1 THEN k ELSE GroupScan(p, k + 1, d - 1)
  ELSE GroupScan(p, k + 1, d)

\* last index of the atom that starts at i, 0 when it is malformed
AtomEnd(p, i) ==
  IF Char(p, i) = "\\" THEN (IF i + 1 <= Len(p) THEN i + 1 ELSE 0)
  ELSE IF Char(p, i) = "[" THEN ClassEnd(p, i)
  ELSE IF Char(p, i) = "(" THEN GroupScan(p, i + 1, 1)
  ELSE i

\* position of the first top-level '|' at or after k, 0 when there is none
RECURSIVE BarScan(_, _)
BarScan(p, k) ==
  IF k > Len(p) THEN 0
  ELSE IF Char(p, k) = "|" THEN k
  ELSE LET e == AtomEnd(p, k) IN IF e = 0 THEN 0 ELSE BarScan(p, e + 1)

\* re.compile succeeds; prev is "start", "at" (after ^ or $), "atom" or "quant"
RECURSIVE ReValidFrom(_, _, _)
ReValidFrom(p, i, prev) ==
  IF i > Len(p) THEN TRUE
  ELSE LET c == Char(p, i) IN
    IF c = "|" THEN ReValidFrom(p, i + 1, "start")
    ELSE IF c = "*" THEN prev = "atom" /\ ReValidFrom(p, i + 1, "quant")
    ELSE IF c = ")" THEN FALSE
    ELSE IF c = "(" THEN
      LET e == AtomEnd(p, i) IN
        /\ e # 0
        /\ ReValidFrom(SubSeq(p, i + 1, e - 1), 1, "start")
        /\ ReValidFrom(p, e + 1, "atom")
    ELSE IF c = "[" \/ c = "\\" THEN
      LET e == AtomEnd(p, i) IN e # 0 /\ ReValidFrom(p, e + 1, "atom")
    ELSE IF c = "^" \/ c = "$" THEN ReValidFrom(p, i + 1, "at")
    ELSE ReValidFrom(p, i + 1, "atom")

IgnoreCasePrefix == "(?i)"

ReBody(p) ==
  IF StartsWith(p, 1, IgnoreCasePrefix)
    THEN SubSeq(p, Len(IgnoreCasePrefix) + 1, Len(p)) ELSE p

ReValid(p) == ReValidFrom(ReBody(p), 1, "start")

SameCh(a, b, ic) == IF ic THEN LowerCh(a) = LowerCh(b) ELSE a = b

\* the members of the class body p[k..e-1]
RECURSIVE ClassHas(_, _, _, _, _)
ClassHas(p, k, e, c, ic) ==
  IF k >= e THEN FALSE
  ELSE IF Char(p, k) = "\\"
    THEN SameCh(Char(p, k + 1), c, ic) \/ ClassHas(p, k + 2, e, c, ic)
    ELSE SameCh(Char(p, k), c, ic) \/ ClassHas(p, k + 1, e, c, ic)

\* one character c against a one-character atom
CharOk(atom, c, ic) ==
  IF atom = "." THEN c # "\n"
  ELSE IF Char(atom, 1) = "\\" THEN SameCh(Char(atom, 2), c, ic)
  ELSE IF Char(atom, 1) = "["
    THEN LET neg == Char(atom, 2) = "^"
             has == ClassHas(atom, ClassFirst(atom, 1), Len(atom), c, ic)
         IN  IF neg THEN ~has ELSE has
  ELSE SameCh(atom, c, ic)

RECURSIVE EndsAlt(_, _, _, _)
RECURSIVE EndsSeq(_, _, _, _)
RECURSIVE EndsAtom(_, _, _, _)
RECURSIVE EndsStar(_, _, _, _)

\* where a match of the alternation p can end when it starts at a position of J
EndsAlt(p, s, J, ic) ==
  LET b == BarScan(p, 1)
  IN  IF b = 0 THEN EndsSeq(p, s, J, ic)
      ELSE EndsSeq(SubSeq(p, 1, b - 1), s, J, ic)
             \cup EndsAlt(SubSeq(p, b + 1, Len(p)), s, J, ic)

EndsSeq(p, s, J, ic) ==
  IF p = "" \/ J = {} THEN J
  ELSE LET e       == AtomEnd(p, 1)
           atom    == SubSeq(p, 1, e)
           starred == e < Len(p) /\ Char(p, e + 1) = "*"
           J1      == IF starred THEN EndsStar(atom, s, J, ic)
                                 ELSE EndsAtom(atom, s, J, ic)
       IN  EndsSeq(SubSeq(p, e + (IF starred THEN 2 ELSE 1), Len(p)), s, J1, ic)

EndsAtom(atom, s, J, ic) ==
  IF atom = "^" THEN {j \in J : j = 1}
  ELSE IF atom = "$"
    THEN {j \in J : j = Len(s) + 1 \/ (j = Len(s) /\ Char(s, j) = "\n")}
  ELSE IF Char(atom, 1) = "("
    THEN EndsAlt(SubSeq(atom, 2, Len(atom) - 1), s, J, ic)
  ELSE {j + 1 : j \in {k \in J : k <= Len(s) /\ CharOk(atom, Char(s, k), ic)}}

EndsStar(atom, s, J, ic) ==
  LET N == J \cup EndsAtom(atom, s, J, ic)
  IN  IF N = J THEN J ELSE EndsStar(atom, s, N, ic)

\* bool(re.search(p, s)) for a pattern p that compiles
ReSearch(p, s) ==
  EndsAlt(ReBody(p), s, 1..(Len(s) + 1), StartsWith(p, 1, IgnoreCasePrefix)) # {}


(***************************************************************************)
(* Raw data: the caller's nested value.  t is the python type name; a str  *)
(* has its text in s, an int its number in n; a dict has its entries       *)
(* [k |-> key, v |-> value] in insertion order in kids, a list its items.  *)
(***************************************************************************)
PyStr(s)   == [t |-> "str", s |-> s, n |-> 0, kids |-> <<>>]
PyInt(n)   == [t |-> "int", s |-> "", n |-> n, kids |-> <<>>]
PyNone   == [t |-> "NoneType", s |-> "", n |-> 0, kids |-> <<>>]
PyDict(es) == [t |-> "dict", s |-> "", n |-> 0, kids |-> es]
PyList(vs) == [t |-> "list", s |-> "", n |-> 0, kids |-> vs]

IsStr(v) == v.t = "str"

\* an outcome of a call: exc = "" when it returned val, else the exception raised
Ok(v)     == [exc |-> "", val |-> v]
Raise(e)  == [exc |-> e, val |-> ""]
Raised(r) == r.exc # ""

(***************************************************************************)
(* utils.convert_wildcard_to_regex                                         *)
(***************************************************************************)
WildcardReplaced(pattern) ==
  LET r1 == Replace(pattern, ".", "\\.")
      r2 == Replace(r1, "+", "\\+")
      r3 == Replace(r2, "?", "_replacetodot_")
      r4 == Replace(r3, "*", "_replacetodotasterisk_")
      r5 == Replace(r4, "_replacetodot_", ".")
      r6 == Replace(r5, "_replacetodotasterisk_", ".*")
  IN  Replace(r6, "[!", "[^")

convert_wildcard_to_regex(pattern, closed) ==
  LET r7            == WildcardReplaced(pattern)
      regex_pattern == IF closed THEN "^" \o r7 \o "$" ELSE r7
  IN  IF ReValid(regex_pattern) THEN Ok(regex_pattern)
      ELSE Raise("RegexConversionError")

(***************************************************************************)
(* collection.LookupCls                                                    *)
(***************************************************************************)
\* a compiled side: a pattern string, a predicate callable, or None
Pattern(p)  == [kind |-> "pattern", pat |-> p, name |-> "", valid |-> TRUE,
                op |-> "", other |-> ""]
Callable(name, valid, op, other) ==
               [kind |-> "callable", pat |-> "", name |-> name, valid |-> valid,
                op |-> op, other |-> other]
NoSide      == [kind |-> "None", pat |-> "", name |-> "", valid |-> TRUE,
                op |-> "", other |-> ""]

Methods == {"text", "wildcard", "regex"}

\* index of the first newline after position i, Len(text) + 1 when none
LineEnd(text, i) ==
  LET nl == {k \in (i + 1)..Len(text) : Char(text, k) = "\n"}
  IN  IF nl = {} THEN Len(text) + 1 ELSE CHOOSE k \in nl : \A m \in nl : k <= m

Max(S) == CHOOSE k \in S : \A m \in S : m <= k
Min(S) == CHOOSE k \in S : \A m \in S : k <= m

\* pat = r'_i?(text|wildcard|regex)[(].+[)]' tried at position p of text:
\* the greedy .+ runs to the last ')' of the line
DirectiveAt(text, p) ==
  LET hasI   == Char(text, p + 1) = "i"
      m0     == IF hasI THEN p + 2 ELSE p + 1
      ms     == {m \in Methods : StartsWith(text, m0, m \o "(")}
      method == CHOOSE m \in ms : TRUE
      open   == m0 + Len(method)
      closes == {q \in (open + 2)..(LineEnd(text, open) - 1) : Char(text, q) = ")"}
  IN  IF Char(text, p) = "_" /\ ms # {} /\ closes # {}
        THEN [start |-> p, end |-> Max(closes), ic |-> hasI, method |-> method,
              payload |-> SubSeq(text, open + 1, Max(closes) - 1)]
        ELSE [start |-> 0, end |-> 0, ic |-> FALSE, method |-> "", payload |-> ""]

\* re.search(pat, text) from position from on: the leftmost match, start = 0 when none
DirectiveSearch(text, from) ==
  LET ps == {p \in from..Len(text) : DirectiveAt(text, p).start # 0}
  IN  IF ps = {} THEN DirectiveAt(text, 0) ELSE DirectiveAt(text, Min(ps))

\* parse_: the fragment of one directive, by its method
parse_(m) ==
  IF m.method = "wildcard" THEN convert_wildcard_to_regex(m.payload, FALSE)
  ELSE IF m.method = "text" THEN Ok(ReEscape(m.payload))
  ELSE Ok(m.payload)

CustomNames ==
  {"is_empty", "is_not_empty", "is_mac_address", "is_not_mac_address",
   "is_ip_address", "is_not_ip_address", "is_ipv4_address", "is_not_ipv4_address",
   "is_ipv6_address", "is_not_ipv6_address", "is_true", "is_not_true",
   "is_false", "is_not_false"}

Digits == "0123456789"
IsDigits(s) == s # "" /\ \A i \in 1..Len(s) : InStr(Char(s, i), Digits)

\* the text a '$' at its end accepts: one trailing newline is dropped
Chomp(s) == IF s # "" /\ Char(s, Len(s)) = "\n" THEN SubSeq(s, 1, Len(s) - 1) ELSE s

\* ([0-9]+)?[.]?[0-9]+
IsNumberText(o) ==
  \/ IsDigits(o)
  \/ \E i \in 1..Len(o) :
       /\ Char(o, i) = "."
       /\ (i = 1 \/ IsDigits(SubSeq(o, 1, i - 1)))
       /\ IsDigits(SubSeq(o, i + 1, Len(o)))

\* .*[^0-9].*
IsOtherText(o) ==
  \E i \in 1..Len(o) :
    /\ ~InStr(Char(o, i), Digits)
    /\ \A k \in (1..Len(o)) \ {i} : Char(o, k) # "\n"

\* OP(OTHER) at the whole of data_: the text between the parentheses, or no match
CallOp(d)    == SubSeq(d, 1, 2)
CallOther(d) == SubSeq(d, 4, Len(d) - 1)
IsCall(d, ops) ==
  /\ Len(d) >= 4
  /\ CallOp(d) \in ops
  /\ Char(d, 3) = "("
  /\ Char(d, Len(d)) = ")"

\* parse_other_: a side without directive
parse_other_(text_) ==
  LET data_ == Lower(text_)
      d     == Chomp(data_)
      cn    == {c \in CustomNames : d = c \o "()"}
      name  == CHOOSE c \in cn : TRUE
  IN  IF cn # {}
        THEN Callable(Replace(name, "not_", ""), Replace(name, "_not_", "") = name, "", "")
      ELSE IF IsCall(d, {"lt", "le", "gt", "ge", "eq", "ne"}) /\ IsNumberText(CallOther(d))
        THEN Callable("compare_number", TRUE, CallOp(d), CallOther(d))
      ELSE IF IsCall(d, {"eq", "ne"}) /\ IsOtherText(CallOther(d))
        THEN Callable("compare", TRUE, CallOp(d), CallOther(d))
      ELSE Pattern("^" \o ReEscape(text_) \o "$")

RECURSIVE ParseLoop(_, _, _, _)

\* one pass of the loop body, with the fragment r that parse_ made of node
ParseAppend(text, start, joined, is_ignorecase, node, r) ==
  IF Raised(r) THEN r
  ELSE ParseLoop(text, node.end + 1,
                 joined \o ReEscape(SubSeq(text, start, node.start - 1)) \o r.val,
                 is_ignorecase \/ node.ic)

\* the next match node of re.finditer, or the else clause of the loop
ParseNode(text, start, joined, is_ignorecase, node) ==
  IF node.start = 0
    THEN Ok([pattern |-> joined \o ReEscape(SubSeq(text, start, Len(text))),
             ic |-> is_ignorecase])
    ELSE ParseAppend(text, start, joined, is_ignorecase, node, parse_(node))

\* the loop over re.finditer(pat, text): the joined pieces, or what parse_ raised
ParseLoop(text, start, joined, is_ignorecase) ==
  ParseNode(text, start, joined, is_ignorecase, DirectiveSearch(text, start))

\* the composed pattern with its anchors and its flag
ParseAnchor(pattern, is_ignorecase) ==
  LET ss == IF Char(pattern, 1) = "^" THEN "" ELSE "^"
      es == IF Char(pattern, Len(pattern)) = "$" THEN "" ELSE "$"
      ic == IF is_ignorecase THEN "(?i)" ELSE ""
  IN  IF pattern # "" THEN Ok(Pattern(ic \o ss \o pattern \o es))
      ELSE Raise("LookupClsError")

ParseJoined(r) == IF Raised(r) THEN r ELSE ParseAnchor(r.val.pattern, r.val.ic)

\* LookupCls.parse
parse(text) ==
  IF DirectiveSearch(text, 1).start = 0 THEN Ok(parse_other_(text))
  ELSE ParseJoined(ParseLoop(text, 1, "", FALSE))

\* process: the right side is parsed once the left side has been
ProcessRight(lookup, l, r) ==
  IF Raised(r) THEN r ELSE Ok([lookup |-> lookup, left |-> l.val, right |-> r.val])

ProcessLeft(lookup, parts, l) ==
  IF Raised(l) THEN l
  ELSE ProcessRight(lookup, l, IF Len(parts) > 1 THEN parse(parts[2]) ELSE Ok(NoSide))

Process(lookup, parts) == ProcessLeft(lookup, parts, parse(parts[1]))

\* LookupCls.__init__ and process: the object, or what construction raised
LookupCls(lookup) == Process(lookup, SplitFirst(lookup, "="))

\* bool(x) of a compiled side
Truthy(side) == IF side.kind = "pattern" THEN side.pat # "" ELSE side.kind = "callable"

\* LookupCls.is_right
is_right(obj) == Truthy(obj.right)

\* re.search(pattern, string) with a python object as the pattern
re_search(side, string) ==
  IF side.kind # "pattern" THEN Raise("TypeError")
  ELSE IF ~ReValid(side.pat) THEN Raise("error")
  ELSE Ok(ReSearch(side.pat, string))

\* is_left_matched without the isinstance test: re.search is handed the
\* index whatever its type
is_left_matched_unguarded(obj, data) ==
  IF ~IsStr(data) THEN Raise("TypeError") ELSE re_search(obj.left, data.s)

\* LookupCls.is_left_matched; data is the index of a node
is_left_matched(obj, data) ==
  IF ~IsStr(data) THEN Ok(FALSE) ELSE re_search(obj.left, data.s)


(***************************************************************************)
(* The callables LookupCls binds (dlquery.validation) and the select       *)
(* statement (dlquery.parser.SelectParser) are collaborators outside the   *)
(* sources at hand; they are modelled at their interface.                  *)
(***************************************************************************)
\* the bound callable applied to a raw value: a boolean, never an exception
\* (it is bound with on_exception=False); is_empty is the one the lookups of
\* this model apply
CallPredicate(side, v) ==
  IF side.name = "is_empty" THEN (IsStr(v) /\ v.s = "") = side.valid
  ELSE FALSE

\* a parsed select statement: its kind, its columns and its filter predicate
NoPredicate == [kind |-> "None", key |-> PyNone, other |-> PyNone]
KeyIs(k, v) == [kind |-> "eq", key |-> k, other |-> v]
ZeroSelect(pred)          == [kind |-> "zero", columns |-> <<>>, predicate |-> pred]
AllSelect(pred)           == [kind |-> "all", columns |-> <<>>, predicate |-> pred]
ColumnSelect(cols, pred)  == [kind |-> "columns", columns |-> cols, predicate |-> pred]

(***************************************************************************)
(* dict operations on raw data                                             *)
(***************************************************************************)
\* key in d
HasKey(d, k) == \E i \in 1..Len(d.kids) : d.kids[i].k = k

\* d.get(k, default)
DictGet(d, k, default) ==
  IF HasKey(d, k)
    THEN d.kids[CHOOSE i \in 1..Len(d.kids) : d.kids[i].k = k].v
    ELSE default

\* dict.fromkeys(columns): the columns without repetition, first occurrences in order
RECURSIVE FromKeys(_)
FromKeys(cols) ==
  IF cols = <<>> THEN <<>>
  ELSE LET front == FromKeys(SubSeq(cols, 1, Len(cols) - 1))
           last  == cols[Len(cols)]
       IN  IF \E i \in 1..Len(front) : front[i] = last THEN front
           ELSE Append(front, last)

\* the filter predicate of a select statement on a parent record; a record
\* that is not a dict has no key to test
SelectPredicate(pred, record) ==
  record.t = "dict" /\ DictGet(record, pred.key, PyNone) = pred.other

(***************************************************************************)
(* collection.Element: the tree is an arena of nodes, a node's id its      *)
(* position; parent = 0 is None; children.none is children = None.         *)
(***************************************************************************)
\* str(i) for i >= 0
RECURSIVE ToStr(_)
ToStr(i) ==
  IF i < 10 THEN Char(Digits, i + 1) ELSE ToStr(i \div 10) \o Char(Digits, (i % 10) + 1)

NoChildren   == [none |-> TRUE, ids |-> <<>>]
Children(ids) == [none |-> FALSE, ids |-> ids]

\* self.children = lst: an empty list is kept
ListKept(ids) == Children(ids)

\* lst or None
ListOrNone(ids) == IF ids = <<>> THEN NoChildren ELSE Children(ids)

RECURSIVE BuildNode(_, _, _, _)
RECURSIVE BuildKids(_, _, _, _, _, _)

\* Element(data, index, parent) created with identity id: its node followed by
\* the nodes of its subtree, in creation order
BuildNode(data, index, parent, id) ==
  IF data.t \in {"dict", "list"}
    THEN LET sub == BuildKids(data, 1, id, id + 1, <<>>, <<>>)
         IN  <<[data |-> data, index |-> index, parent |-> parent, type |-> data.t,
                children |-> ListOrNone(sub.ids)]>> \o sub.nodes
    ELSE <<[data |-> data, index |-> index, parent |-> parent,
            type |-> IF data.t \in {"int", "float", "bool", "str", "NoneType"}
                       THEN data.t ELSE "object",
            children |-> NoChildren]>>

\* the loop of _build over the items of a dict or the elements of a list
BuildKids(data, i, parent, next, nodes, ids) ==
  IF i > Len(data.kids) THEN [nodes |-> nodes, ids |-> ids]
  ELSE LET index == IF data.t = "dict" THEN data.kids[i].k
                    ELSE PyStr("__index__" \o ToStr(i - 1))
           val   == IF data.t = "dict" THEN data.kids[i].v ELSE data.kids[i]
           elm   == BuildNode(val, index, parent, next)
       IN  BuildKids(data, i + 1, parent, next + Len(elm), nodes \o elm, Append(ids, next))

\* Element(data): the root has identity 1, index '' and no parent
Element(data) == BuildNode(data, PyStr(""), 0, 1)

has_children(node) == ~node.children.none /\ node.children.ids # <<>>
is_element(node)   == has_children(node)
is_list(node)      == node.type = "list"

\* Element.is_scalar: isinstance(self.data, (int, float, bool, str, None))
\* answers True at the first type of the tuple the data is an instance of and
\* raises TypeError when it comes to None, which is not a type
is_scalar(node) ==
  IF node.data.t \in {"int", "float", "bool", "str"} THEN Ok(TRUE)
  ELSE Raise("TypeError")
is_dict(node)      == node.type = "dict"

\* is_right_matched without the isinstance test: re.search is handed the
\* value whatever its type
is_right_matched_unguarded(obj, data) ==
  IF ~Truthy(obj.right) THEN Ok(TRUE)
  ELSE IF obj.right.kind = "callable" THEN Ok(CallPredicate(obj.right, data))
  ELSE IF ~IsStr(data) THEN Raise("TypeError")
  ELSE re_search(obj.right, data.s)

\* LookupCls.is_right_matched
is_right_matched(obj, data) ==
  IF ~Truthy(obj.right) THEN Ok(TRUE)
  ELSE IF obj.right.kind = "callable" THEN Ok(CallPredicate(obj.right, data))
  ELSE IF ~IsStr(data) THEN Ok(FALSE)
  ELSE re_search(obj.right, data.s)

RECURSIVE find_(_, _, _, _)
RECURSIVE FindChildren(_, _, _, _, _)

\* Element.find_: the result list after the call, or the exception it raised
find_(nodes, n, lookup_obj, result) ==
  IF is_dict(nodes[n]) \/ is_list(nodes[n])
    THEN IF nodes[n].children.none THEN Raise("TypeError")
         ELSE FindChildren(nodes, n, 1, lookup_obj, result)
    ELSE Ok(result)

\* the right side is asked once the left side lm has matched
RightAfterLeft(lookup_obj, child, lm) ==
  IF Raised(lm) \/ ~lm.val \/ ~is_right(lookup_obj) THEN lm
  ELSE is_right_matched(lookup_obj, child.data)

\* find_ with the test on lookup_obj.is_right left out: the left side decides
MatchChildLeftOnly(lookup_obj, child) == is_left_matched(lookup_obj, child.index)

\* whether find_ appends the child of a dict node: the nested tests on its
\* index and its data
MatchChild(lookup_obj, child) ==
  RightAfterLeft(lookup_obj, child, is_left_matched(lookup_obj, child.index))

\* the loop goes on after the recursion into a child
AfterChild(nodes, n, i, lookup_obj, r) ==
  IF Raised(r) THEN r ELSE FindChildren(nodes, n, i + 1, lookup_obj, r.val)

\* find_ recursing into the children that are dicts only
DescendDictsOnly(nodes, n, i, lookup_obj, c, result) ==
  AfterChild(nodes, n, i, lookup_obj,
             IF is_element(nodes[c]) /\ is_dict(nodes[c])
               THEN find_(nodes, c, lookup_obj, result)
               ELSE Ok(result))

\* if child.is_element: self.find_(child, lookup_obj, result)
Descend(nodes, n, i, lookup_obj, c, result) ==
  AfterChild(nodes, n, i, lookup_obj,
             IF is_element(nodes[c]) THEN find_(nodes, c, lookup_obj, result)
             ELSE Ok(result))

\* the elements after the i-th one of a list are searched before the i-th one
LaterElementsFirst(nodes, n, i, lookup_obj, c, r) ==
  IF Raised(r) \/ ~is_element(nodes[c]) THEN r
  ELSE find_(nodes, c, lookup_obj, r.val)

\* find_ going through the elements of a list from the last one to the first
AfterMatchListReversed(nodes, n, i, lookup_obj, c, result, hit) ==
  IF Raised(hit) THEN hit
  ELSE IF is_list(nodes[n])
    THEN LaterElementsFirst(nodes, n, i, lookup_obj, c,
                            FindChildren(nodes, n, i + 1, lookup_obj, result))
    ELSE Descend(nodes, n, i, lookup_obj, c,
                 IF hit.val THEN Append(result, c) ELSE result)

\* the child c is appended when it is a hit, then recursed into
AfterMatch(nodes, n, i, lookup_obj, c, result, hit) ==
  IF Raised(hit) THEN hit
  ELSE Descend(nodes, n, i, lookup_obj, c,
               IF hit.val THEN Append(result, c) ELSE result)

\* find_ testing the children of a list like those of a dict
FindChildrenAllTested(nodes, n, i, lookup_obj, result) ==
  IF i > Len(nodes[n].children.ids) THEN Ok(result)
  ELSE AfterMatch(nodes, n, i, lookup_obj, nodes[n].children.ids[i], result,
                  MatchChild(lookup_obj, nodes[nodes[n].children.ids[i]]))

\* the loop of find_ over node.children, from the i-th child on: the child of
\* a list is not tested
FindChildren(nodes, n, i, lookup_obj, result) ==
  IF i > Len(nodes[n].children.ids) THEN Ok(result)
  ELSE AfterMatch(nodes, n, i, lookup_obj, nodes[n].children.ids[i], result,
                  IF is_list(nodes[n]) THEN Ok(FALSE)
                  ELSE MatchChild(lookup_obj, nodes[nodes[n].children.ids[i]]))

\* the record a column-select builds from a parent record
NewData(parent, columns) ==
  LET keys == FromKeys(columns)
  IN  PyDict([i \in 1..Len(keys) |-> [k |-> keys[i], v |-> DictGet(parent, keys[i], PyNone)]])

\* d[k] = v on a dict
DictSet(d, k, v) ==
  IF HasKey(d, k)
    THEN PyDict([i \in 1..Len(d.kids) |->
                   IF d.kids[i].k = k THEN [k |-> k, v |-> v] ELSE d.kids[i]])
    ELSE PyDict(Append(d.kids, [k |-> k, v |-> v]))

\* is_added |= key in item.parent.data, in place of &=
IsAddedAny(parent, columns) == \E i \in 1..Len(columns) : HasKey(parent, columns[i])

\* is_added after the loop over the keys of new_data
IsAdded(parent, columns) == \A i \in 1..Len(columns) : HasKey(parent, columns[i])

\* the three output loops of filter_result over lst, from the i-th item on
RECURSIVE Project(_, _, _, _)
Project(nodes, lst, i, select_obj) ==
  IF i > Len(lst) THEN <<>>
  ELSE
    LET item   == nodes[lst[i]]
        parent == nodes[item.parent].data
        rest   == Project(nodes, lst, i + 1, select_obj)
    IN  IF select_obj.kind = "zero" THEN <<item.data>> \o rest
        ELSE IF select_obj.kind = "all" THEN <<parent>> \o rest
        ELSE IF IsAdded(parent, select_obj.columns)
          THEN <<NewData(parent, select_obj.columns)>> \o rest
          ELSE rest

\* the filter predicate applied to record.data in place of record.parent.data
RECURSIVE KeptOwnData(_, _, _, _)
KeptOwnData(nodes, records, i, pred) ==
  IF i > Len(records) THEN <<>>
  ELSE LET rest == KeptOwnData(nodes, records, i + 1, pred)
       IN  IF SelectPredicate(pred, nodes[records[i]].data)
             THEN <<records[i]>> \o rest ELSE rest

\* the records kept by the filter predicate of filter_result
RECURSIVE Kept(_, _, _, _)
Kept(nodes, records, i, pred) ==
  IF i > Len(records) THEN <<>>
  ELSE LET rest == Kept(nodes, records, i + 1, pred)
       IN  IF SelectPredicate(pred, nodes[nodes[records[i]].parent].data)
             THEN <<records[i]>> \o rest ELSE rest

\* the output loops of filter_result over lst: fromkeys is an attribute of
\* dicts alone
Output(nodes, lst, select_obj) ==
  IF select_obj.kind = "columns"
       /\ \E i \in 1..Len(lst) : nodes[nodes[lst[i]].parent].data.t # "dict"
    THEN Raise("AttributeError")
    ELSE Ok(Project(nodes, lst, 1, select_obj))

\* Element.filter_result: the list it returns, or the exception it raised.
\* record.parent.data and item.parent.data are read of every record with a
\* filter predicate, an all-select or a column-select; parent None has no data
filter_result(nodes, records, select_obj) ==
  IF (select_obj.predicate.kind # "None" \/ select_obj.kind # "zero")
       /\ \E i \in 1..Len(records) : nodes[records[i]].parent = 0
    THEN Raise("AttributeError")
    ELSE Output(nodes,
                IF select_obj.predicate.kind # "None"
                  THEN Kept(nodes, records, 1, select_obj.predicate)
                  ELSE records,
                select_obj)

\* a column-select that hands out the parent record itself: new_data is
\* item.parent.data, not a dict made by fromkeys
RECURSIVE OriginAliased(_, _, _, _)
OriginAliased(nodes, lst, i, select_obj) ==
  IF i > Len(lst) THEN <<>>
  ELSE
    LET item == nodes[lst[i]]
        rest == OriginAliased(nodes, lst, i + 1, select_obj)
    IN  IF select_obj.kind = "zero" THEN <<lst[i]>> \o rest
        ELSE IF select_obj.kind = "all" THEN <<item.parent>> \o rest
        ELSE IF IsAdded(nodes[item.parent].data, select_obj.columns)
          THEN <<item.parent>> \o rest
          ELSE rest

\* the object each output loop of filter_result appends: item.data is the
\* data object of the item, item.parent.data that of its parent, new_data an
\* object of its own (0)
RECURSIVE Origin(_, _, _, _)
Origin(nodes, lst, i, select_obj) ==
  IF i > Len(lst) THEN <<>>
  ELSE
    LET item == nodes[lst[i]]
        rest == Origin(nodes, lst, i + 1, select_obj)
    IN  IF select_obj.kind = "zero" THEN <<lst[i]>> \o rest
        ELSE IF select_obj.kind = "all" THEN <<item.parent>> \o rest
        ELSE IF IsAdded(nodes[item.parent].data, select_obj.columns)
          THEN <<0>> \o rest
          ELSE rest

\* the objects of the list filter_result returns
result_objects(nodes, records, select_obj) ==
  Origin(nodes,
         IF select_obj.predicate.kind # "None"
           THEN Kept(nodes, records, 1, select_obj.predicate)
           ELSE records,
         1, select_obj)

\* Element.find on the root of nodes: the compiled lookup, the match list of
\* find_ and the outcome of the call
FindFiltered(nodes, lkup_obj, found, select_obj) ==
  [lkup    |-> lkup_obj,
   records |-> IF Raised(found) THEN <<>> ELSE found.val,
   shared  |-> IF Raised(found) \/ Raised(filter_result(nodes, found.val, select_obj))
                 THEN <<>>
                 ELSE result_objects(nodes, found.val, select_obj),
   outcome |-> IF Raised(found) THEN Raise(found.exc)
               ELSE filter_result(nodes, found.val, select_obj)]

FindCompiled(nodes, lkup_obj, select_obj) ==
  FindFiltered(nodes, lkup_obj,
               IF Raised(lkup_obj) THEN lkup_obj
               ELSE find_(nodes, 1, lkup_obj.val, <<>>),
               select_obj)

find(nodes, lookup, select_obj) == FindCompiled(nodes, LookupCls(lookup), select_obj)


\* node p and the nodes whose data holds the data of p: the node that has p
\* among its children, and so on up to the root
RECURSIVE PathTo(_, _)
PathTo(nodes, p) ==
  IF \E q \in 1..Len(nodes) :
       \E x \in 1..Len(nodes[q].children.ids) : nodes[q].children.ids[x] = p
    THEN {p} \cup PathTo(nodes,
                        CHOOSE q \in 1..Len(nodes) :
                          \E x \in 1..Len(nodes[q].children.ids) :
                            nodes[q].children.ids[x] = p)
    ELSE {p}

\* what node q refers to as its data once the data object of node p holds
\* rec: the objects that contain it show the change, the tree of Element
\* nodes is not rebuilt
RECURSIVE Seen(_, _, _, _)
Seen(nodes, q, p, rec) ==
  IF q = p THEN rec
  ELSE IF q \notin PathTo(nodes, p) THEN nodes[q].data
  ELSE LET ids == nodes[q].children.ids
           j   == CHOOSE x \in 1..Len(ids) : ids[x] \in PathTo(nodes, p)
           sub == Seen(nodes, ids[j], p, rec)
       IN  [nodes[q].data EXCEPT
              !.kids[j] = IF nodes[q].type = "dict" THEN [@ EXCEPT !.v = sub] ELSE sub]

\* Result.update_parent(parent) on node n: the nodes afterwards and the
\* outcome of the call. The parent handed over is None (0), the Element that
\* is node parent of the tree, or an object that is no Element (-1).
update_parent(nodes, n, parent) ==
  IF parent = 0 \/ parent \in 1..Len(nodes)
    THEN [nodes   |-> [nodes EXCEPT ![n].parent = parent],
          outcome |-> Ok(PyNone)]
    ELSE [nodes |-> nodes, outcome |-> Raise("ResultError")]

\* result[i][k] = v by the caller of find: the nodes and the list afterwards.
\* A record that is the data object of a node is written in the raw data;
\* a record that is an object of its own is the only thing written.
setitem(nodes, result, shared, i, k, v) ==
  IF shared[i] = 0
    THEN [nodes |-> nodes, result |-> [result EXCEPT ![i] = DictSet(@, k, v)]]
    ELSE LET after == [q \in 1..Len(nodes) |->
                        [nodes[q] EXCEPT
                           !.data = Seen(nodes, q, shared[i], DictSet(result[i], k, v))]]
         IN  [nodes  |-> after,
              result |-> [j \in 1..Len(result) |-> after[shared[j]].data]]

(***************************************************************************)
(* dlquery.DLQuery.get                                                     *)
(***************************************************************************)
\* an optional int: None, or the int n
NoInt    == [none |-> TRUE, n |-> 0]
SomeInt(n) == [none |-> FALSE, n |-> n]

RECURSIVE DigitsValue(_)
DigitsValue(s) ==
  IF s = "" THEN 0
  ELSE 10 * DigitsValue(SubSeq(s, 1, Len(s) - 1))
       + (CHOOSE d \in 0..9 : Char(Digits, d + 1) = Char(s, Len(s)))

\* re.match(r'[0-9]+$', s): the pattern without its sign
IsIntTextUnsigned(s) == IsDigits(Chomp(s))

\* re.match(r'-?[0-9]+$', s)
IsIntText(s) ==
  LET t == Chomp(s)
  IN  IF Char(t, 1) = "-" THEN IsDigits(Tail(t)) ELSE IsDigits(t)

\* the digits of an int literal: single underscores may stand between digits
IsGroupedDigits(u) ==
  /\ IsDigits(Replace(u, "_", ""))
  /\ Char(u, 1) # "_"
  /\ Char(u, Len(u)) # "_"
  /\ \A x \in 1..Len(u) : ~StartsWith(u, x, "__")

\* int(s): surrounding whitespace, one sign and grouping underscores are accepted
int(s) ==
  LET t == Strip(s)
      u == IF Char(t, 1) \in {"-", "+"} THEN Tail(t) ELSE t
      d == Replace(u, "_", "")
  IN  IF ~IsGroupedDigits(u) THEN Raise("ValueError")
      ELSE Ok(IF Char(t, 1) = "-" THEN 0 - DigitsValue(d) ELSE DigitsValue(d))

\* list[i] for an int i
ListItem(data, i) ==
  LET n == Len(data.kids)
  IN  IF i >= n \/ i < 0 - n THEN Raise("IndexError")
      ELSE Ok(data.kids[(IF i < 0 THEN i + n ELSE i) + 1])

\* the items at start, start + step, ... short of stop (0-based positions)
RECURSIVE SliceItems(_, _, _, _)
SliceItems(kids, start, stop, step) ==
  IF (step > 0 /\ start >= stop) \/ (step < 0 /\ start <= stop) THEN <<>>
  ELSE <<kids[start + 1]>> \o SliceItems(kids, start + step, stop, step)

\* one bound of slice.indices
SliceBound(b, n, lower, upper, whenNone) ==
  IF b.none THEN whenNone
  ELSE IF b.n < 0 THEN (IF b.n + n < lower THEN lower ELSE b.n + n)
  ELSE (IF b.n > upper THEN upper ELSE b.n)

\* list[slice(i, j, k)]
ListSlice(data, i, j, k) ==
  LET n     == Len(data.kids)
      step  == IF k.none THEN 1 ELSE k.n
      lower == IF step < 0 THEN 0 - 1 ELSE 0
      upper == IF step < 0 THEN n - 1 ELSE n
      start == SliceBound(i, n, lower, upper, IF step < 0 THEN upper ELSE lower)
      stop  == SliceBound(j, n, lower, upper, IF step < 0 THEN lower ELSE upper)
  IN  IF step = 0 THEN Raise("ValueError")
      ELSE Ok(PyList(SliceItems(data.kids, start, stop, step)))

\* int(x) if x else None, for each component of a slice string in turn:
\* the parsed components, or the first exception
RECURSIVE SliceInts(_)
SliceInts(comps) ==
  IF comps = <<>> THEN Ok(<<>>)
  ELSE LET c    == IF comps[1] = "" THEN Ok(NoInt)
                   ELSE LET v == int(comps[1])
                        IN  IF Raised(v) THEN v ELSE Ok(SomeInt(v.val))
           rest == SliceInts(Tail(comps))
       IN  IF Raised(c) THEN c
           ELSE IF Raised(rest) THEN rest
           ELSE Ok(<<c.val>> \o rest.val)

\* the str index of a list with the step of start:stop:step dropped
GetByTextNoStep(data, index, default, on_exception) ==
  IF IsIntText(Strip(index))
    THEN LET i == int(index) IN IF Raised(i) THEN i ELSE ListItem(data, i.val)
  ELSE
    LET count == Count(index, ":")
        parts == Split(index, ":")
        comps == [x \in 1..Len(parts) |-> Strip(parts[x])]
        chks  == {x \in 1..Len(comps) : IsIntText(Strip(comps[x])) \/ comps[x] = ""}
        ints  == SliceInts(comps)
    IN  IF count \in {1, 2} /\ chks # {}
          THEN IF Raised(ints) THEN ints
               ELSE ListSlice(data, ints.val[1], ints.val[2], NoInt)
        ELSE IF on_exception THEN Raise("TypeError")
        ELSE Ok(default)

\* the body of the try block of get for a list and a str index
GetByText(data, index, default, on_exception) ==
  IF IsIntText(Strip(index))
    THEN LET i == int(index) IN IF Raised(i) THEN i ELSE ListItem(data, i.val)
  ELSE
    LET count == Count(index, ":")
        parts == Split(index, ":")
        comps == [x \in 1..Len(parts) |-> Strip(parts[x])]
        chks  == {x \in 1..Len(comps) : IsIntText(Strip(comps[x])) \/ comps[x] = ""}
        ints  == SliceInts(comps)
    IN  IF count \in {1, 2} /\ chks # {}
          THEN IF Raised(ints) THEN ints
               ELSE ListSlice(data, ints.val[1], ints.val[2],
                              IF count = 2 THEN ints.val[3] ELSE NoInt)
        ELSE IF on_exception THEN Raise("TypeError")
        ELSE Ok(default)

GetTry(data, index, default, on_exception) ==
  IF data.t = "list"
    THEN IF index.t = "int" THEN ListItem(data, index.n)
         ELSE IF index.t = "str" THEN GetByText(data, index.s, default, on_exception)
         ELSE Ok(default)
    ELSE Ok(DictGet(data, index, default))

\* get with an except clause that returns default whatever on_exception is
get_swallowing(data, index, default, on_exception) ==
  LET r == GetTry(data, index, default, on_exception)
  IN  IF Raised(r) THEN Ok(default) ELSE r

\* DLQuery(data).get(index, default, on_exception)
get(data, index, default, on_exception) ==
  LET r == GetTry(data, index, default, on_exception)
  IN  IF Raised(r) /\ ~on_exception THEN Ok(default) ELSE r


(***************************************************************************)
(* The inputs the specifications draw from                                 *)
(***************************************************************************)
\* the largest number of entries (dict items and list elements) of a raw value
MaxNodes == 3
\* the longest list handed to DLQuery, and the largest number in an index
MaxListLen == 4
MaxIndex == 3

Keys    == {PyStr("a"), PyStr("b")}
Scalars == {PyStr("b"), PyInt(1)}
Leaves  == Scalars \cup {PyDict(<<>>), PyList(<<>>)}

RECURSIVE TreesOfSize(_)
RECURSIVE Forests(_, _)

\* the sequences of children a container of kind t can hold with n entries in all
Forests(t, n) ==
  IF n = 0 THEN {<<>>}
  ELSE UNION {
         { <<c>> \o rest :
             c \in IF t = "dict"
                     THEN {[k |-> k, v |-> v] : k \in Keys, v \in TreesOfSize(m)}
                     ELSE TreesOfSize(m),
             rest \in Forests(t, n - 1 - m) }
         : m \in 0..(n - 1) }

DistinctKeys(es) == \A i, j \in 1..Len(es) : es[i].k = es[j].k => i = j

\* the raw values with exactly n entries
TreesOfSize(n) ==
  IF n = 0 THEN Leaves
  ELSE {PyDict(es) : es \in {f \in Forests("dict", n) : DistinctKeys(f)}}
         \cup {PyList(vs) : vs \in Forests("list", n)}

Trees == UNION {TreesOfSize(n) : n \in 0..MaxNodes}

\* the raw value with the int 1 as the key of every entry that had key 'b'
RECURSIVE IntKeyed(_)
IntKeyed(v) ==
  IF v.t = "dict"
    THEN PyDict([i \in 1..Len(v.kids) |->
                   [k |-> IF v.kids[i].k = PyStr("b") THEN PyInt(1) ELSE v.kids[i].k,
                    v |-> IntKeyed(v.kids[i].v)]])
  ELSE IF v.t = "list"
    THEN PyList([i \in 1..Len(v.kids) |-> IntKeyed(v.kids[i])])
  ELSE v

\* raw values with nodes of every kind: the trees, and the values of the
\* other kinds (None, a float, a bool, an object of a class) alone, as the
\* value of a map entry and as the element of a sequence
KindTrees ==
  LET OtherLeaves ==
        {PyNone,
         [t |-> "float", s |-> "1.5", n |-> 0, kids |-> <<>>],
         [t |-> "bool", s |-> "", n |-> 1, kids |-> <<>>],
         [t |-> "object", s |-> "", n |-> 0, kids |-> <<>>]}
  IN  Trees \cup OtherLeaves
        \cup {PyDict(<<[k |-> PyStr("a"), v |-> x]>>) : x \in OtherLeaves}
        \cup {PyList(<<x>>) : x \in OtherLeaves}

\* the raw value with the empty string in place of every int 1
RECURSIVE Emptied(_)
Emptied(v) ==
  IF v.t = "dict"
    THEN PyDict([i \in 1..Len(v.kids) |->
                   [k |-> v.kids[i].k, v |-> Emptied(v.kids[i].v)]])
  ELSE IF v.t = "list"
    THEN PyList([i \in 1..Len(v.kids) |-> Emptied(v.kids[i])])
  ELSE IF v = PyInt(1) THEN PyStr("")
  ELSE v

\* the raw values that hold a map entry with an int key
KeyedTrees == {IntKeyed(d) : d \in Trees} \ Trees

\* select='' of Element.find
DefaultSelect == ZeroSelect(NoPredicate)

Lookups ==
  {"a", "a=b", "_wildcard(?)", "_wildcard(*)=_regex(b|c)", "_itext(A)=_wildcard(?)",
   "a=is_not_empty()", "is_empty()", "_regex([)", "_wildcard([)", "b=_regex(*)", "b=b",
   "_wildcard(__index__*)"}

SelectLookups == {"a", "_wildcard(?)=b"}

Selects ==
  {ZeroSelect(NoPredicate), AllSelect(NoPredicate),
   ColumnSelect(<<PyStr("a")>>, NoPredicate),
   ColumnSelect(<<PyStr("b"), PyStr("a"), PyStr("b")>>, NoPredicate),
   ZeroSelect(KeyIs(PyStr("b"), PyStr("b"))),
   AllSelect(KeyIs(PyStr("a"), PyInt(1))),
   ColumnSelect(<<PyStr("b")>>, KeyIs(PyStr("a"), PyStr("b")))}

Items == <<PyStr("a"), PyStr("b"), PyStr("c"), PyStr("d"), PyStr("e")>>

Containers ==
  {PyList(SubSeq(Items, 1, n)) : n \in 0..MaxListLen}
    \cup {PyDict(<<>>),
          PyDict(<<[k |-> PyStr("x"), v |-> PyInt(1)]>>),
          PyDict(<<[k |-> PyStr("1"), v |-> PyStr("a")], [k |-> PyInt(1), v |-> PyStr("b")]>>)}

\* str(i) for any int i
IntText(i) == IF i < 0 THEN "-" \o ToStr(0 - i) ELSE ToStr(i)

IndexInts  == (0 - MaxIndex - 1)..(MaxIndex + 1)
Components == {""} \cup {IntText(i) : i \in (0 - MaxIndex)..MaxIndex}

Indexes ==
  {PyInt(i) : i \in IndexInts}
    \cup {PyStr(IntText(i)) : i \in IndexInts}
    \cup {PyStr(a \o ":" \o b) : a, b \in Components}
    \cup {PyStr(a \o ":" \o b \o ":" \o c) : a, b, c \in Components}
    \cup {PyStr(t) : t \in {"", "x", "y", " 1 ", "+1", " -1", "1:x", "x:y", "x:", "+1:2",
                            " 0 : 2 ", "1:2:3:4", ":::", "a:b:c", "::x", "1 2",
                            "0_1:", "0_1", ":1__0", "_1:", ":+2"}}
    \cup {PyNone}

Defaults == {PyNone, PyStr("DEF")}

\* the longest wildcard pattern and the longest string searched in
MaxWildLen == 3
MaxTextLen == 3

\* the strings over an alphabet of up to n characters
RECURSIVE StringsUpTo(_, _)
StringsUpTo(alphabet, n) ==
  IF n = 0 THEN {""}
  ELSE LET shorter == StringsUpTo(alphabet, n - 1)
       IN  shorter \cup {t \o c : t \in shorter, c \in alphabet}

\* wildcard patterns of letters, '.', '+', '?' and '*'
Wildcards ==
  (StringsUpTo({"a", "c", ".", "+", "?", "*"}, MaxWildLen) \ {""}) \cup {"a?c*"}

\* strings of letters, '.', '+' and a line break
Texts ==
  StringsUpTo({"a", "c", ".", "+", "\n"}, MaxTextLen)
    \cup {"abc", "abcxyz", "ac", "a$", "a$c", "ac$", "A", "acca"}

\* lookups whose sides hold no, one or several directives, and empty sides
SideLookups ==
  {"a", "ac", "", "a=", "=a", "a=c", "is_empty()",
   "_text(a)", "_itext(A)", "_text(a$)", "_text(a)c$", "_text(.)", "a_text(+)",
   "_wildcard(a*)", "_wildcard(a?c*)", "a_wildcard(?)c", "_iwildcard(A*)",
   "_regex(a|c)", "_regex(^a)", "_regex(a$)", "_regex(a.)", "_regex(a*)c",
   "_text(a)_wildcard(c*)", "_regex(a)_regex(c)", "_text(a)+_wildcard(?)",
   "_wildcard(?)=_text(a)_text(c)"}

(***************************************************************************)
(* State: an Element tree with the last find on it, and a DLQuery with the *)
(* last get on it.                                                         *)
(***************************************************************************)
VARIABLES
  op,            \* "new" after construction, then the call made: "find" or "get"
  data,          \* the raw data handed to Element
  nodes,         \* the Element tree built from it
  lookup,        \* find: the lookup argument
  select,        \* find: the parsed select statement
  lkup_obj,      \* find: the outcome of LookupCls(lookup)
  records,       \* find: the match list filled by find_
  result,        \* find: the outcome of the call
  shared,        \* find: per output record, the node whose data object it is (0: a new object)
  dl,            \* the data handed to DLQuery
  index,         \* get: the index argument
  default,       \* get: the default argument
  on_exception,  \* get: the on_exception argument
  ret,           \* get: the outcome of the call
  pattern,       \* convert_wildcard_to_regex: the wildcard pattern
  regex_pattern, \* convert_wildcard_to_regex: the outcome of the call
  string,        \* the string a pattern is searched in
  matched,       \* the outcome of re.search for the pattern in the string
  node,          \* is_scalar, update_parent: the node it is called on
  scalar,        \* is_scalar: the outcome of the read
  updated        \* update_parent: the outcome of the call

vars == <<op, data, nodes, lookup, select, lkup_obj, records, result, shared,
          dl, index, default, on_exception, ret,
          pattern, regex_pattern, string, matched, node, scalar, updated>>

elementVars == <<data, nodes, lookup, select, lkup_obj, records, result, shared>>
dlqueryVars == <<dl, index, default, on_exception, ret>>
searchVars  == <<pattern, regex_pattern, string, matched>>
propertyVars == <<node, scalar, updated>>

NoCall(d, c, s) ==
  /\ op = "new"
  /\ data = d
  /\ nodes = Element(d)
  /\ lookup = ""
  /\ select = DefaultSelect
  /\ lkup_obj = Raise("")
  /\ records = <<>>
  /\ result = Raise("")
  /\ shared = <<>>
  /\ dl = c
  /\ index = PyNone
  /\ default = PyNone
  /\ on_exception = FALSE
  /\ ret = Raise("")
  /\ pattern = ""
  /\ regex_pattern = Raise("")
  /\ string = s
  /\ matched = Raise("")
  /\ node = 0
  /\ scalar = Raise("")
  /\ updated = Raise("")

\* after Element(data)
InitElement == \E d \in Trees : NoCall(d, PyList(<<>>), "")

\* after Element(data) on data with int keys
InitKeyed == \E d \in KeyedTrees : NoCall(d, PyList(<<>>), "")

\* after DLQuery(data)
InitDLQuery == \E c \in Containers : NoCall(PyNone, c, "")

\* a string to search in, before any call
InitSearch == \E s \in Texts : NoCall(PyNone, PyList(<<>>), s)

\* Element.find(lookup, select) on the root
Find(lk, sel) ==
  /\ op \in {"new", "update_parent"}
  /\ op' = "find"
  /\ lookup' = lk
  /\ select' = sel
  /\ \E f \in {find(nodes, lk, sel)} :
       /\ lkup_obj' = f.lkup
       /\ records' = f.records
       /\ result' = f.outcome
       /\ shared' = f.shared
  /\ UNCHANGED <<data, nodes>>
  /\ UNCHANGED dlqueryVars
  /\ UNCHANGED searchVars
  /\ UNCHANGED propertyVars

\* DLQuery.get(index, default, on_exception)
Get(ix, df, oe) ==
  /\ op = "new"
  /\ op' = "get"
  /\ index' = ix
  /\ default' = df
  /\ on_exception' = oe
  /\ ret' = get(dl, ix, df, oe)
  /\ UNCHANGED dl
  /\ UNCHANGED elementVars
  /\ UNCHANGED searchVars
  /\ UNCHANGED propertyVars

\* re.search(convert_wildcard_to_regex(pattern, closed=True), string)
Convert(w) ==
  /\ op = "new"
  /\ op' = "convert"
  /\ pattern' = w
  /\ \E r \in {convert_wildcard_to_regex(w, TRUE)} :
       /\ regex_pattern' = r
       /\ matched' = IF Raised(r) THEN r ELSE Ok(ReSearch(r.val, string))
  /\ UNCHANGED string
  /\ UNCHANGED elementVars
  /\ UNCHANGED dlqueryVars
  /\ UNCHANGED propertyVars

\* LookupCls(lookup).is_left_matched(string)
Compile(lk) ==
  /\ op = "new"
  /\ op' = "lookup"
  /\ lookup' = lk
  /\ \E obj \in {LookupCls(lk)} :
       /\ lkup_obj' = obj
       /\ matched' = IF Raised(obj) THEN obj ELSE is_left_matched(obj.val, PyStr(string))
  /\ UNCHANGED <<data, nodes, select, records, result, shared>>
  /\ UNCHANGED <<pattern, regex_pattern, string>>
  /\ UNCHANGED dlqueryVars
  /\ UNCHANGED propertyVars

\* the caller writes result[i][k] = v into a record find returned
SetItem(i, k, v) ==
  /\ op = "find"
  /\ ~Raised(result)
  /\ i \in 1..Len(result.val)
  /\ result.val[i].t = "dict"
  /\ op' = "setitem"
  /\ \E w \in {setitem(nodes, result.val, shared, i, k, v)} :
       /\ nodes' = w.nodes
       /\ data' = w.nodes[1].data
       /\ result' = Ok(w.result)
  /\ UNCHANGED <<lookup, select, lkup_obj, records, shared>>
  /\ UNCHANGED dlqueryVars
  /\ UNCHANGED searchVars
  /\ UNCHANGED propertyVars

\* the is_scalar property read of node n of the tree
IsScalar(n) ==
  /\ op = "new"
  /\ n \in 1..Len(nodes)
  /\ op' = "is_scalar"
  /\ node' = n
  /\ scalar' = is_scalar(nodes[n])
  /\ UNCHANGED updated
  /\ UNCHANGED elementVars
  /\ UNCHANGED dlqueryVars
  /\ UNCHANGED searchVars

\* node n .update_parent(p), once, before any other call
UpdateParent(n, p) ==
  /\ op = "new"
  /\ n \in 1..Len(nodes)
  /\ p <= Len(nodes)
  /\ op' = "update_parent"
  /\ node' = n
  /\ \E u \in {update_parent(nodes, n, p)} :
       /\ nodes' = u.nodes
       /\ updated' = u.outcome
  /\ UNCHANGED scalar
  /\ UNCHANGED <<data, lookup, select, lkup_obj, records, result, shared>>
  /\ UNCHANGED dlqueryVars
  /\ UNCHANGED searchVars

Next == \E lk \in Lookups : Find(lk, DefaultSelect)

NextSelect == \E lk \in SelectLookups, sel \in Selects : Find(lk, sel)

NextGet == \E ix \in Indexes, df \in Defaults, oe \in BOOLEAN : Get(ix, df, oe)

NextWildcard == \E w \in Wildcards : Convert(w)

NextLookup == \E lk \in SideLookups : Compile(lk)

NextScalar == \E n \in 1..(MaxNodes + 1) : IsScalar(n)

NextFrame ==
  \/ \E lk \in SelectLookups, sel \in Selects : Find(lk, sel)
  \/ \E i \in 1..MaxNodes, k \in {PyStr("a"), PyStr("w")} : SetItem(i, k, PyStr("W"))
  \/ \E n \in 1..(MaxNodes + 1), p \in (0 - 1)..(MaxNodes + 1) : UpdateParent(n, p)

\* finds on an Element tree, with the default select
Spec == InitElement /\ [][Next]_vars

\* finds on an Element tree whose raw data has int keys
SpecKeys == InitKeyed /\ [][Next]_vars

\* reads of is_scalar on the nodes of an Element tree
SpecScalar ==
  /\ \E d \in KindTrees : NoCall(d, PyList(<<>>), "")
  /\ [][NextScalar]_vars

\* finds on the trees and on sequences of two elements, a tree of up to
\* MaxNodes - 1 entries followed by one of up to MaxNodes - 2
SpecOrder ==
  /\ \E d \in Trees \cup
              {PyList(<<x, y>>) :
                 x \in UNION {TreesOfSize(n) : n \in 0..(MaxNodes - 1)},
                 y \in UNION {TreesOfSize(n) : n \in 0..(MaxNodes - 2)}} :
       NoCall(d, PyList(<<>>), "")
  /\ [][Next]_vars

\* finds on the trees and on the trees with empty strings as values, with the
\* lookups and the callable is_empty as a right side
SpecValues ==
  /\ \E d \in Trees \cup {Emptied(t) : t \in Trees} : NoCall(d, PyList(<<>>), "")
  /\ [][\E lk \in Lookups \cup {"a=is_empty()"} : Find(lk, DefaultSelect)]_vars

\* finds on an Element tree, with select statements
SpecSelect == InitElement /\ [][NextSelect]_vars

\* gets on a DLQuery
SpecGet == InitDLQuery /\ [][NextGet]_vars

\* wildcard conversions, each searched in a string
SpecWildcard == InitSearch /\ [][NextWildcard]_vars

\* lookups compiled by LookupCls, each tried on a string as a label
SpecLookup == InitSearch /\ [][NextLookup]_vars

\* finds on an Element tree of the smaller sizes, after a caller's
\* update_parent or not, and a caller's write into a returned record, to the
\* key 'a' of the data or to a new key
SpecFrame ==
  /\ \E d \in UNION {TreesOfSize(n) : n \in 0..(MaxNodes - 1)} : NoCall(d, PyList(<<>>), "")
  /\ [][NextFrame]_vars


(***************************************************************************)
(* Element.find with the default select (Spec)                             *)
(***************************************************************************)
\* the last call was a find whose lookup LookupCls accepted
Compiled == op = "find" /\ ~Raised(lkup_obj)

\* a find that returned its list
Returned == Compiled /\ ~Raised(result)

\* a side re.search and the callables can work with: absent, a callable, or
\* a pattern that is a regular expression
SideUsable(side) == side.kind = "pattern" => ReValid(side.pat)

\* a pattern that begins with ^ and ends with $, after its flag
Anchored(p) == Char(ReBody(p), 1) = "^" /\ Char(ReBody(p), Len(ReBody(p))) = "$"

\* the nodes in the match list of find_
Collected == {records[i] : i \in 1..Len(records)}

\* the node is an entry of a map: a child of a dict node
IsMapEntry(n) == nodes[n].parent # 0 /\ nodes[nodes[n].parent].type = "dict"

\* the key label of the node is accepted by the left pattern
LabelAccepted(n) ==
  IsStr(nodes[n].index) /\ ReSearch(lkup_obj.val.left.pat, nodes[n].index.s)

\* the value is accepted by the right specification: the callable says so, or
\* the value is a string the right pattern accepts
ValueAccepted(n) ==
  IF lkup_obj.val.right.kind = "callable"
    THEN CallPredicate(lkup_obj.val.right, nodes[n].data)
    ELSE IsStr(nodes[n].data) /\ ReSearch(lkup_obj.val.right.pat, nodes[n].data.s)

\* the node lies below a sequence: its parent is an element of a list
BelowList(n) ==
  /\ nodes[n].parent # 0
  /\ nodes[nodes[n].parent].parent # 0
  /\ nodes[nodes[nodes[n].parent].parent].type = "list"

\* C1: for every root value, empty or not, and every lookup that compiles (to
\* a left pattern and sides re can search with), find completes without
\* raising.
C1_FindNeverRaises ==
  (Compiled /\ lkup_obj.val.left.kind = "pattern"
     /\ SideUsable(lkup_obj.val.left) /\ SideUsable(lkup_obj.val.right))
    => ~Raised(result)

\* C2: once LookupCls has accepted the lookup, its left specification is an
\* anchored regular-expression string, never a callable.
C2_LeftIsAnchoredPattern ==
  Compiled => lkup_obj.val.left.kind = "pattern" /\ Anchored(lkup_obj.val.left.pat)

\* C3: a lookup whose composed pattern is not a valid regular expression is
\* rejected by LookupCls: an accepted lookup has valid patterns on both sides.
C3_InvalidPatternRejected ==
  Compiled => SideUsable(lkup_obj.val.left) /\ SideUsable(lkup_obj.val.right)

\* C4: every node find_ collected is a map entry whose key label the left
\* pattern accepts, with a value the right specification accepts when the
\* lookup has a right side; without a right side the value is unconstrained:
\* every map entry with an accepted label is collected, whatever its value.
C4_FinderSound ==
  Returned =>
    /\ \A n \in Collected :
         /\ IsMapEntry(n)
         /\ LabelAccepted(n)
         /\ is_right(lkup_obj.val) => ValueAccepted(n)
    /\ (~is_right(lkup_obj.val) /\ lkup_obj.val.left.kind = "pattern"
          /\ SideUsable(lkup_obj.val.left))
         => \A n \in 1..Len(nodes) : (IsMapEntry(n) /\ LabelAccepted(n)) => n \in Collected

\* a lookup with no right side collected an entry with a scalar value and an
\* entry with a container as value, and passed over an entry with another label
C4_Witness ==
  /\ Returned
  /\ ~is_right(lkup_obj.val)
  /\ \E n, m \in Collected :
       /\ nodes[n].type \in {"str", "int"}
       /\ nodes[m].type \in {"dict", "list"}
  /\ \E n \in 1..Len(nodes) : IsMapEntry(n) /\ n \notin Collected

\* the literal lookups key=value of Lookups, as <<lookup, key, value>>
LiteralLookups == {<<"a=b", "a", "b">>, <<"b=b", "b", "b">>}

\* the node is a map entry {key: value} with the string value
IsEntry(n, key, value) ==
  IsMapEntry(n) /\ nodes[n].index = PyStr(key) /\ nodes[n].data = PyStr(value)

\* C5: for a literal lookup key=value, every map entry {key: value} with a
\* string value, at any depth, is in the match list.
C5_FinderComplete ==
  \A l \in LiteralLookups :
    (op = "find" /\ lookup = l[1]) =>
      \A n \in 1..Len(nodes) : IsEntry(n, l[2], l[3]) => n \in Collected

\* a literal lookup found its entry below a sequence, and an entry below a map entry
C5_Witness ==
  /\ op = "find"
  /\ \E l \in LiteralLookups :
       /\ lookup = l[1]
       /\ \E n \in Collected :
            IsEntry(n, l[2], l[3]) /\ (BelowList(n) \/ nodes[nodes[n].parent].parent # 0)


(***************************************************************************)
(* Element.find with a select statement (SpecSelect)                       *)
(***************************************************************************)
\* the raw record of the parent of a collected node
ParentRecord(n) == nodes[nodes[n].parent].data

\* the match passes the filter predicate of the select statement, if any
Survives(n) ==
  select.predicate.kind = "None" \/ SelectPredicate(select.predicate, ParentRecord(n))

\* the surviving matches, in match order
Survivors == SelectSeq(records, Survives)

\* every requested column is a key of the parent record of the match
HasAllColumns(n) ==
  \A i \in 1..Len(select.columns) : HasKey(ParentRecord(n), select.columns[i])

\* the surviving matches a column-select emits a record for
Emitting == SelectSeq(Survivors, HasAllColumns)

ColumnSet == {select.columns[i] : i \in 1..Len(select.columns)}

\* the record has exactly the requested columns as keys, each with the value
\* the parent record has for it
IsProjection(rec, parent) ==
  /\ rec.t = "dict"
  /\ {rec.kids[j].k : j \in 1..Len(rec.kids)} = ColumnSet
  /\ Len(rec.kids) = Cardinality(ColumnSet)
  /\ \A j \in 1..Len(rec.kids) :
       \E x \in 1..Len(parent.kids) :
         parent.kids[x].k = rec.kids[j].k /\ parent.kids[x].v = rec.kids[j].v

\* C6: a column-select emits a record for a surviving match exactly when
\* every requested column is a key of the match's parent record, and the
\* record has exactly the requested columns, each with the parent's value; a
\* match whose parent lacks a column contributes nothing.
C6_ColumnSelect ==
  (Returned /\ select.kind = "columns") =>
    /\ Len(result.val) = Len(Emitting)
    /\ \A i \in 1..Len(Emitting) :
         IsProjection(result.val[i], ParentRecord(Emitting[i]))

\* a select of two columns emitted a record for one match and none for
\* another, whose parent lacks a column
C6_Witness ==
  /\ Returned
  /\ select.kind = "columns"
  /\ Cardinality(ColumnSet) = 2
  /\ Len(Emitting) > 0
  /\ Len(Emitting) < Len(Survivors)

\* C7: the matches whose parent record satisfies the filter predicate survive
\* (all of them without a predicate); a zero-select outputs the own value of
\* each survivor and an all-select its parent's whole record, one output per
\* survivor, in match order.
C7_FilterZeroAll ==
  (Returned /\ select.kind \in {"zero", "all"}) =>
    result.val = [i \in 1..Len(Survivors) |->
                    IF select.kind = "zero" THEN nodes[Survivors[i]].data
                    ELSE ParentRecord(Survivors[i])]

\* an all-select with a predicate that one match survived and another did not
C7_Witness ==
  /\ Returned
  /\ select.kind = "all"
  /\ select.predicate.kind # "None"
  /\ Len(Survivors) > 0
  /\ Len(Survivors) < Len(records)
  /\ result.val[1] = ParentRecord(Survivors[1])


(***************************************************************************)
(* DLQuery.get (SpecGet)                                                   *)
(***************************************************************************)
\* a component of a slice: absent, or an integer
OptInts == {NoInt} \cup {SomeInt(i) : i \in (0 - MaxIndex)..MaxIndex}

OptText(o) == IF o.none THEN "" ELSE IntText(o.n)

\* the index strings that write the slice i:j:k
SliceTexts(i, j, k) ==
  {OptText(i) \o ":" \o OptText(j) \o ":" \o OptText(k)}
    \cup (IF k.none THEN {OptText(i) \o ":" \o OptText(j)} ELSE {})

\* a bound counted from the end when negative; whenNone when absent
FromEnd(b, n, whenNone) == IF b.none THEN whenNone ELSE IF b.n < 0 THEN b.n + n ELSE b.n

\* the half-open selection kids[i:j:k]: the positions from the first one on,
\* step by step, short of the stop
Selection(kids, i, j, k) ==
  LET n     == Len(kids)
      step  == IF k.none THEN 1 ELSE k.n
      start == FromEnd(i, n, IF step > 0 THEN 0 ELSE n - 1)
      stop  == FromEnd(j, n, IF step > 0 THEN n ELSE 0 - 1)
      first == IF step > 0 THEN (IF start < 0 THEN 0 ELSE start)
               ELSE (IF start > n - 1 THEN n - 1 ELSE start)
      P     == IF step > 0
                 THEN {p \in 0..(n - 1) : first <= p /\ p < stop /\ (p - first) % step = 0}
                 ELSE {p \in 0..(n - 1) : p <= first /\ stop < p
                                          /\ (first - p) % (0 - step) = 0}
  IN  [x \in 1..Cardinality(P) |-> kids[first + (x - 1) * step + 1]]

\* C8: for a list and a string index with one or two colons whose components
\* are empty or optionally-negative integers, with a step other than 0, get
\* returns the half-open sub-sequence data[start:stop:step].
C8_SliceAccess ==
  (op = "get" /\ dl.t = "list") =>
    \A i, j, k \in OptInts :
      ((k.none \/ k.n # 0) /\ index \in {PyStr(t) : t \in SliceTexts(i, j, k)})
        => ret = Ok(PyList(Selection(dl.kids, i, j, k)))

\* get on [a, b, c, d] with "1:3" returned [b, c]
C8_Witness ==
  /\ op = "get"
  /\ dl = PyList(<<PyStr("a"), PyStr("b"), PyStr("c"), PyStr("d")>>)
  /\ index = PyStr("1:3")
  /\ ret = Ok(PyList(<<PyStr("b"), PyStr("c")>>))

\* i is a position of the list, counted from the front or from the end
InRange(i) == 0 - Len(dl.kids) <= i /\ i < Len(dl.kids)

ElementAt(i) == dl.kids[(IF i < 0 THEN i + Len(dl.kids) ELSE i) + 1]

\* the integer i as an index: the int, or the string of it with a minus sign
\* when negative
IntIndexes(i) == {PyInt(i), PyStr(IntText(i))}

\* the string of i with a plus sign
PlusIndexes(i) == IF i >= 0 THEN {PyStr("+" \o ToStr(i))} ELSE {}

\* get on a map with the key present returns the value of the key
MapHit ==
  (op = "get" /\ dl.t = "dict") =>
    \A x \in 1..Len(dl.kids) : dl.kids[x].k = index => ret = Ok(dl.kids[x].v)

\* C9 as stated: a hit on a map returns container[key]; a hit on a list with
\* an in-range integer, or a string holding an optionally-signed integer,
\* returns the element at that position, whatever on_exception is.
C9_HitSigned ==
  /\ MapHit
  /\ (op = "get" /\ dl.t = "list") =>
       \A i \in IndexInts :
         (InRange(i) /\ index \in IntIndexes(i) \cup PlusIndexes(i))
           => ret = Ok(ElementAt(i))

\* C9 amended: the string holds an integer with at most a minus sign.
C9_HitSemantics ==
  /\ MapHit
  /\ (op = "get" /\ dl.t = "list") =>
       \A i \in IndexInts :
         (InRange(i) /\ index \in IntIndexes(i)) => ret = Ok(ElementAt(i))

\* get with "-1" and on_exception returned the last element of a list
C9_Witness ==
  /\ op = "get"
  /\ dl.t = "list"
  /\ Len(dl.kids) > 1
  /\ index = PyStr("-1")
  /\ on_exception
  /\ ret = Ok(dl.kids[Len(dl.kids)])

\* C10: a miss on a list with an out-of-range integer, int or string, returns
\* default when on_exception is false and raises IndexError when it is true;
\* a miss on a map returns default whatever on_exception is.
C10_MissSemantics ==
  /\ (op = "get" /\ dl.t = "list") =>
       \A i \in IndexInts :
         (~InRange(i) /\ index \in IntIndexes(i))
           => ret = IF on_exception THEN Raise("IndexError") ELSE Ok(default)
  /\ (op = "get" /\ dl.t = "dict" /\ ~HasKey(dl, index)) => ret = Ok(default)

\* get on a list of three with "4" and on_exception raised IndexError
C10_Witness ==
  /\ op = "get"
  /\ dl.t = "list"
  /\ Len(dl.kids) = 3
  /\ index = PyStr("4")
  /\ on_exception
  /\ ret = Raise("IndexError")

\* the text is an integer: digits after at most one sign
SignedIntText(t) ==
  IsDigits(IF Char(t, 1) \in {"-", "+"} THEN Tail(t) ELSE t)

\* the colon-separated components of the index, without surrounding whitespace
IndexComponents == LET parts == Split(index.s, ":")
                   IN  {Strip(parts[x]) : x \in 1..Len(parts)}

\* the string index is malformed: no bare integer, and a component that is
\* neither empty nor an integer, or a number of colons other than 1 or 2
Malformed ==
  /\ index.t = "str"
  /\ ~SignedIntText(Strip(index.s))
  /\ \/ \E c \in IndexComponents : c # "" /\ ~SignedIntText(c)
     \/ Count(index.s, ":") \notin {1, 2}

\* C11: for a list and a malformed string index, get returns no element and
\* no slice: it returns default when on_exception is false and raises when
\* it is true.
C11_MalformedIndex ==
  (op = "get" /\ dl.t = "list" /\ Malformed)
    => IF on_exception THEN Raised(ret) ELSE ret = Ok(default)


(***************************************************************************)
(* utils.convert_wildcard_to_regex (SpecWildcard)                          *)
(***************************************************************************)
\* the string matches the wildcard: '?' stands for exactly one character,
\* '*' for zero or more characters, every other character for itself
RECURSIVE WildMatch(_, _)
WildMatch(w, s) ==
  IF w = "" THEN s = ""
  ELSE IF Char(w, 1) = "*"
    THEN WildMatch(Tail(w), s) \/ (s # "" /\ WildMatch(w, Tail(s)))
  ELSE IF Char(w, 1) = "?"
    THEN s # "" /\ WildMatch(Tail(w), Tail(s))
  ELSE s # "" /\ Char(s, 1) = Char(w, 1) /\ WildMatch(Tail(w), Tail(s))

\* C12: for a wildcard of letters, '.', '+', '?' and '*', the anchored result
\* of convert_wildcard_to_regex accepts a string exactly when the string
\* matches the wildcard.
C12_WildcardExact ==
  op = "convert" =>
    (~Raised(regex_pattern) /\ matched = Ok(WildMatch(pattern, string)))


(***************************************************************************)
(* The Element tree (Spec)                                                 *)
(***************************************************************************)
\* the positions of node n in the children of node p
PlacesIn(p, n) == {i \in 1..Len(nodes[p].children.ids) : nodes[p].children.ids[i] = n}

\* the raw data of the node has no item: an empty map, an empty sequence, a
\* scalar or an opaque value
NoItems(n) == nodes[n].data.kids = <<>>

\* C13: every non-root node occurs exactly once in the children of its
\* parent and every child has the node that lists it as parent, the root has
\* no parent, and no node holds a present but empty children container: a
\* node with no children has children absent.
C13_TreeInvariant ==
  /\ nodes[1].parent = 0
  /\ \A n \in 2..Len(nodes) :
       /\ nodes[n].parent \in 1..Len(nodes)
       /\ Cardinality(PlacesIn(nodes[n].parent, n)) = 1
  /\ \A p \in 1..Len(nodes) :
       /\ \A i \in 1..Len(nodes[p].children.ids) :
            nodes[nodes[p].children.ids[i]].parent = p
       /\ ~nodes[p].children.none => nodes[p].children.ids # <<>>
       /\ NoItems(p) <=> nodes[p].children.none

\* a tree with an empty container below a container that is itself a child
C13_Witness ==
  \E n, m \in 2..Len(nodes) :
    /\ nodes[m].parent = n
    /\ nodes[m].type \in {"dict", "list"}
    /\ nodes[m].children.none
    /\ Len(nodes[nodes[n].parent].children.ids) > 1


\* node n lies below node a: a is its parent or an ancestor of its parent
RECURSIVE IsBelow(_, _)
IsBelow(n, a) ==
  nodes[n].parent # 0 /\ (nodes[n].parent = a \/ IsBelow(nodes[n].parent, a))

\* node n is c or lies in the subtree of c
InSubtree(n, c) == n = c \/ IsBelow(n, c)

\* c1 and c2 are children of one node, c1 before c2 (insertion order of a
\* map, positions of a sequence)
SiblingBefore(c1, c2) ==
  /\ nodes[c1].parent # 0
  /\ nodes[c1].parent = nodes[c2].parent
  /\ \E x, y \in 1..Len(nodes[nodes[c1].parent].children.ids) :
       /\ x < y
       /\ nodes[nodes[c1].parent].children.ids[x] = c1
       /\ nodes[nodes[c1].parent].children.ids[y] = c2

\* C14: in the match list of find_, a matched node precedes every match in
\* its own subtree, and for siblings c1 before c2 every match in the subtree
\* of c1 (c1 included) precedes every match in the subtree of c2.
C14_PreOrder ==
  op = "find" =>
    \A i, j \in 1..Len(records) :
      /\ IsBelow(records[j], records[i]) => i < j
      /\ (\E c1, c2 \in 1..Len(nodes) :
            /\ SiblingBefore(c1, c2)
            /\ InSubtree(records[i], c1)
            /\ InSubtree(records[j], c2)) => i < j

\* a find with a match, a match inside its subtree, and a match in a later
\* element of the sequence that holds the first two in an earlier element
C14_Witness ==
  /\ op = "find"
  /\ \E i, j, k \in 1..Len(records) :
       /\ IsBelow(records[j], records[i])
       /\ \E c1, c2 \in 1..Len(nodes) :
            /\ SiblingBefore(c1, c2)
            /\ nodes[nodes[c1].parent].type = "list"
            /\ InSubtree(records[i], c1)
            /\ InSubtree(records[k], c2)


\* the node is a direct element of a sequence node
IsListElement(n) == nodes[n].parent # 0 /\ nodes[nodes[n].parent].type = "list"

\* C15: a direct element of a sequence is never in the match list, whatever
\* the lookup, and is never tested: a tree with no map entry gives an empty
\* list even for a lookup whose left side cannot be searched with. Every
\* matched node has a parent, and that parent is a map node.
C15_SequenceAsymmetry ==
  Compiled =>
    /\ \A n \in 1..Len(nodes) : IsListElement(n) => n \notin Collected
    /\ \A n \in Collected : nodes[n].parent # 0 /\ nodes[nodes[n].parent].type = "dict"
    /\ (has_children(nodes[1]) /\ \A n \in 1..Len(nodes) : ~IsMapEntry(n))
         => result = Ok(<<>>)

\* a find passed over an element of a sequence whose positional label and
\* value the lookup accepts, and collected an entry below the sequence
C15_Witness ==
  /\ Returned
  /\ lkup_obj.val.left.kind = "pattern"
  /\ Collected # {}
  /\ \E n \in 1..Len(nodes) :
       /\ IsListElement(n)
       /\ LabelAccepted(n)
       /\ is_right(lkup_obj.val) => ValueAccepted(n)
       /\ n \notin Collected


(***************************************************************************)
(* LookupCls.parse (SpecLookup)                                            *)
(***************************************************************************)
\* the last call compiled a lookup, and LookupCls accepted it
Accepted == op = "lookup" /\ ~Raised(lkup_obj)

\* the text of the left side of the lookup
LeftText == SplitFirst(lookup, "=")[1]

\* the sides of the lookup: the left one, and the right one after a '='
SideTexts == {SplitFirst(lookup, "=")[x] : x \in 1..Len(SplitFirst(lookup, "="))}

\* the side holds a directive
HasDirective(side) == DirectiveSearch(side, 1).start # 0

\* the pattern accepts the string as a whole: it matches from the first to
\* the last character
WholeMatch(p, s) ==
  ReSearch((IF ReBody(p) = p THEN "" ELSE IgnoreCasePrefix)
             \o "^(" \o ReBody(p) \o ")$", s)

\* C16: the composed pattern of a side with a directive is anchored at both
\* ends, so it accepts a label only as a whole string, never on a proper
\* prefix, suffix or substring.
C16_Anchoring ==
  (Accepted /\ HasDirective(LeftText) /\ SideUsable(lkup_obj.val.left)) =>
    /\ Anchored(lkup_obj.val.left.pat)
    /\ matched = Ok(TRUE) => WholeMatch(lkup_obj.val.left.pat, string)

\* the ways a directive opens: _METHOD( or _iMETHOD(
Heads ==
  {[s |-> "_" \o i \o m \o "(", ic |-> i = "i", method |-> m] :
     i \in {"", "i"}, m \in Methods}

\* the position of the ')' that closes a directive opened by head h at the
\* start of the text, after a payload of at least one character; 0 if none
CloseAt(text, h) ==
  IF StartsWith(text, 1, h.s)
       /\ \E k \in (Len(h.s) + 2)..Len(text) : Char(text, k) = ")"
    THEN Min({k \in (Len(h.s) + 2)..Len(text) : Char(text, k) = ")"})
    ELSE 0

\* the directive at the start of the text, each occurrence on its own: its
\* head and the position of its ')'
OpensWith(text) == {h \in Heads : CloseAt(text, h) # 0}

\* the fragment a directive contributes
Fragment(method, payload) ==
  IF method = "text" THEN ReEscape(payload)
  ELSE IF method = "wildcard" THEN WildcardReplaced(payload)
  ELSE payload

RECURSIVE Composed(_)
RECURSIVE DirectiveCount(_)

\* the pieces of a side joined in source order: the fragment of every
\* directive, and the text around the directives escaped
ComposedFrom(text, h, rest) ==
  [pattern |-> Fragment(h.method, SubSeq(text, Len(h.s) + 1, CloseAt(text, h) - 1))
                 \o rest.pattern,
   ic      |-> h.ic \/ rest.ic]

ComposedText(text, rest) ==
  [pattern |-> ReEscape(Char(text, 1)) \o rest.pattern, ic |-> rest.ic]

Composed(text) ==
  IF text = "" THEN [pattern |-> "", ic |-> FALSE]
  ELSE IF OpensWith(text) # {}
    THEN LET h == CHOOSE x \in OpensWith(text) : TRUE
         IN  ComposedFrom(text, h, Composed(SubSeq(text, CloseAt(text, h) + 1, Len(text))))
  ELSE ComposedText(text, Composed(Tail(text)))

\* the number of directive occurrences of a side
DirectiveCount(text) ==
  IF text = "" THEN 0
  ELSE IF OpensWith(text) # {}
    THEN LET h == CHOOSE x \in OpensWith(text) : TRUE
         IN  1 + DirectiveCount(SubSeq(text, CloseAt(text, h) + 1, Len(text)))
  ELSE DirectiveCount(Tail(text))

\* C17: for a side with several directives among literal text, every
\* directive is located on its own and contributes its fragment, the text
\* around them is escaped, and the composed pattern is the pieces joined in
\* source order.
C17_Composition ==
  (op = "lookup" /\ DirectiveCount(LeftText) >= 2) =>
    /\ ~Raised(lkup_obj)
    /\ Ok(lkup_obj.val.left)
         = ParseAnchor(Composed(LeftText).pattern, Composed(LeftText).ic)

\* C18: compiling a lookup with an empty side, for which neither text nor a
\* directive produces a pattern, fails with LookupClsError.
C18_EmptySideFails ==
  (op = "lookup" /\ "" \in SideTexts) => lkup_obj = Raise("LookupClsError")

(***************************************************************************)
(* The right side of a lookup (SpecValues)                                 *)
(***************************************************************************)
\* the right-side dispatch on the raw value of a node: no right expression,
\* the callable's answer, or a string the right pattern accepts
RightAccepts(n) ==
  IF ~is_right(lkup_obj.val) THEN TRUE
  ELSE IF lkup_obj.val.right.kind = "callable"
    THEN CallPredicate(lkup_obj.val.right, nodes[n].data)
  ELSE IsStr(nodes[n].data) /\ ReSearch(lkup_obj.val.right.pat, nodes[n].data.s)

\* C19: for a map entry whose label the left pattern accepts, find raises
\* nothing and the entry is collected exactly when the lookup has no right
\* expression, or the right callable is true of the raw value, or the right
\* side is a pattern, the raw value is a string and the pattern accepts it; a
\* value that is not a string is passed over under a pattern right side.
C19_RightDispatch ==
  (Compiled /\ lkup_obj.val.left.kind = "pattern"
     /\ SideUsable(lkup_obj.val.left) /\ SideUsable(lkup_obj.val.right))
    => \A n \in 1..Len(nodes) :
         (IsMapEntry(n) /\ LabelAccepted(n)) =>
           /\ ~Raised(result)
           /\ n \in Collected <=> RightAccepts(n)

\* under a callable right side, an entry with an accepted label of whose
\* value the callable is false was passed over, and one of whose value, not
\* a string, the callable is true was collected
C19_Witness ==
  /\ Returned
  /\ lkup_obj.val.right.kind = "callable"
  /\ \E n, m \in 1..Len(nodes) :
       /\ IsMapEntry(n) /\ LabelAccepted(n)
       /\ ~CallPredicate(lkup_obj.val.right, nodes[n].data) /\ n \notin Collected
       /\ IsMapEntry(m) /\ LabelAccepted(m)
       /\ ~IsStr(nodes[m].data)
       /\ CallPredicate(lkup_obj.val.right, nodes[m].data) /\ m \in Collected

(***************************************************************************)
(* What find and its caller write (SpecFrame)                              *)
(***************************************************************************)
\* C20: find leaves the raw data, every node of the tree and the compiled
\* lookup as they were; the records of a column-select are objects of their
\* own, so a caller's write into one changes neither the raw data nor a node.
C20_ReadOnly ==
  [][/\ op' = "find" =>
          /\ data' = data
          /\ nodes' = nodes
          /\ lkup_obj' = LookupCls(lookup')
     /\ (op' = "setitem" /\ select.kind = "columns") =>
          /\ data' = data
          /\ nodes' = nodes]_vars

\* a caller wrote into a record of a column-select: the record holds the
\* written value, the parent record it was built from does not
C20_Witness ==
  /\ op = "setitem"
  /\ select.kind = "columns"
  /\ nodes = Element(data)
  /\ \E i \in 1..Len(result.val) :
       /\ DictGet(result.val[i], PyStr("a"), PyNone) = PyStr("W")
       /\ \E n \in Collected :
            /\ DictGet(nodes[nodes[n].parent].data, PyStr("a"), PyNone) # PyStr("W")
            /\ HasKey(nodes[nodes[n].parent].data, PyStr("a"))

(***************************************************************************)
(* Map entries with a key that is not a string (SpecKeys)                  *)
(***************************************************************************)
\* the node is a map entry whose key is not a string
IsOddKeyed(n) == IsMapEntry(n) /\ ~IsStr(nodes[n].index)

\* the node lies below a map entry whose key is not a string
BelowOddKeyed(n) == \E a \in 1..Len(nodes) : IsOddKeyed(a) /\ IsBelow(n, a)

\* C21: a map entry whose key is not a string is never in the match list,
\* whatever the lookup; its subtree is searched all the same: a string-keyed
\* entry below it that the lookup accepts is in the match list.
C21_NonStringKey ==
  op = "find" =>
    /\ \A n \in Collected : ~IsOddKeyed(n)
    /\ (Compiled /\ lkup_obj.val.left.kind = "pattern"
          /\ SideUsable(lkup_obj.val.left) /\ SideUsable(lkup_obj.val.right))
         => \A n \in 1..Len(nodes) :
              (BelowOddKeyed(n) /\ IsMapEntry(n) /\ LabelAccepted(n) /\ RightAccepts(n))
                => (~Raised(result) /\ n \in Collected)

\* a lookup that accepts every string label passed over an entry with an int
\* key and collected a string-keyed entry below it
C21_Witness ==
  /\ Returned
  /\ lookup = "_wildcard(*)=_regex(b|c)"
  /\ \E a \in 1..Len(nodes) :
       /\ IsOddKeyed(a)
       /\ a \notin Collected
       /\ \E n \in Collected : IsBelow(n, a) /\ IsStr(nodes[n].index)

(***************************************************************************)
(* Element.is_scalar (SpecScalar)                                          *)
(***************************************************************************)
\* C22: read of a node of any kind, is_scalar returns a boolean and raises
\* nothing: true exactly when the data of the node is an int, a float, a
\* bool, a str or None, false for a map, a sequence and an opaque object.
C22_IsScalar ==
  op = "is_scalar" =>
    scalar = Ok(nodes[node].data.t \in {"int", "float", "bool", "str", "NoneType"})

====
